---- MODULE Spec2Model ----
(***************************************************************************)
(* norad: the designspace document codec (src/src/designspace.rs) and the  *)
(* DataRequest descriptor (src/src/data_request.rs).                       *)
(*                                                                         *)
(* A markup document is a tree of elements.  An element is a record        *)
(*   [tag, attrs, text, kids]                                              *)
(* where attrs is a function from the names of the attributes that are     *)
(* written on the element to their text.  The decoders and encoders below  *)
(* follow the serde attributes of the structs field by field: a "@x" field *)
(* is the attribute x, any other field is the child elements named after   *)
(* the field, a field without "default" that is not an Option is required. *)
(* f32 values are fixed-point tenths (4.1 is 41, 400 is 4000).             *)
(***************************************************************************)
EXTENDS Integers, Sequences, FiniteSets, TLC

VARIABLES fs, origin, ds, loadRes, saveRes, dr, ctor, lastSet, prevDr, lastCall

vars == <<fs, origin, ds, loadRes, saveRes, dr, ctor, lastSet, prevDr, lastCall>>
dsVars == <<fs, origin, ds, loadRes, saveRes>>
drVars == <<dr, ctor, lastSet, prevDr, lastCall>>

(***************************************************************************)
(* Bounds of the document generator.                                       *)
(***************************************************************************)
MaxAxes == 2
MaxSources == 2
MaxInstances == 2
MaxDims == 2

(***************************************************************************)
(* Results and options.                                                    *)
(***************************************************************************)
Ok(v) == [ok |-> TRUE, v |-> v]
Err == [ok |-> FALSE]
Some(v) == [some |-> TRUE, v |-> v]
None == [some |-> FALSE]

AllOk(rs) == \A i \in DOMAIN rs : rs[i].ok
Vals(rs) == [i \in DOMAIN rs |-> rs[i].v]
Collect(rs) == IF AllOk(rs) THEN Ok(Vals(rs)) ELSE Err

RECURSIVE Concat(_)
Concat(ss) == IF Len(ss) = 0 THEN <<>> ELSE Head(ss) \o Concat(Tail(ss))

(***************************************************************************)
(* Elements.                                                               *)
(***************************************************************************)
NoAttrs == [n \in {} |-> ""]
Elem(tag, attrs, kids) == [tag |-> tag, attrs |-> attrs, text |-> "", kids |-> kids]
TextElem(tag, text) == [tag |-> tag, attrs |-> NoAttrs, text |-> text, kids |-> <<>>]
HasAttr(e, n) == n \in DOMAIN e.attrs
Kids(e, tag) == SelectSeq(e.kids, LAMBDA k : k.tag = tag)

(***************************************************************************)
(* Text of scalar values: f32 and bool are parsed from and formatted to    *)
(* attribute text.  Several texts parse to the same number; formatting     *)
(* gives the shortest one.                                                 *)
(***************************************************************************)
ParseF32(t) ==
    CASE t = "0" -> Ok(0)
      [] t = "0.0" -> Ok(0)
      [] t = "4.1" -> Ok(41)
      [] t = "100" -> Ok(1000)
      [] t = "400" -> Ok(4000)
      [] t = "400.0" -> Ok(4000)
      [] t = "700" -> Ok(7000)
      [] OTHER -> Err

FormatF32(v) ==
    CASE v = 0 -> "0"
      [] v = 41 -> "4.1"
      [] v = 1000 -> "100"
      [] v = 4000 -> "400"
      [] v = 7000 -> "700"

ParseBool(t) ==
    CASE t = "true" -> Ok(TRUE)
      [] t = "1" -> Ok(TRUE)
      [] t = "false" -> Ok(FALSE)
      [] t = "0" -> Ok(FALSE)
      [] OTHER -> Err

FormatBool(b) == IF b THEN "true" ELSE "false"

\* A list attribute holds its items separated by spaces.
ParseF32List(t) ==
    CASE t = "400" -> Ok(<<4000>>)
      [] t = "400 700" -> Ok(<<4000, 7000>>)
      [] t = "400.0 700" -> Ok(<<4000, 7000>>)
      [] OTHER -> Err

FormatF32List(vs) ==
    CASE vs = <<4000>> -> "400"
      [] vs = <<4000, 7000>> -> "400 700"

ParseString(t) == Ok(t)

\* The text of an attribute read as a value of the type of its field.
Parse(ty, t) ==
    CASE ty = "String" -> ParseString(t)
      [] ty = "f32" -> ParseF32(t)
      [] ty = "bool" -> ParseBool(t)
      [] ty = "Vec<f32>" -> ParseF32List(t)

(***************************************************************************)
(* Fields of a derived Deserialize.  An attribute field is given the       *)
(* element and the name and type of the attribute; a child field is given  *)
(* the results of decoding the child elements named after the field.       *)
(***************************************************************************)
\* A required attribute: an error when it is not written.
ReqAttr(e, n, ty) == IF HasAttr(e, n) THEN Parse(ty, e.attrs[n]) ELSE Err

OptAttr_zero(e, n, ty) ==
    IF HasAttr(e, n)
    THEN LET r == Parse(ty, e.attrs[n]) IN IF r.ok THEN Ok(Some(r.v)) ELSE Err
    ELSE LET z == Parse(ty, "0") IN IF z.ok THEN Ok(Some(z.v)) ELSE Ok(None)

\* An Option attribute: absent when it is not written.
OptAttr(e, n, ty) ==
    IF HasAttr(e, n)
    THEN LET r == Parse(ty, e.attrs[n]) IN IF r.ok THEN Ok(Some(r.v)) ELSE Err
    ELSE Ok(None)

\* An attribute with serde(default): the default when it is not written.
DefaultAttr(e, n, ty, dflt) == IF HasAttr(e, n) THEN Parse(ty, e.attrs[n]) ELSE Ok(dflt)

\* A required child element that is not a sequence.
ReqChild(rs) == IF Len(rs) = 1 THEN rs[1] ELSE Err

DefaultChild_dropped(rs, dflt) == IF Len(rs) <= 1 THEN Ok(dflt) ELSE Err

DefaultChild_required(rs, dflt) == IF Len(rs) = 1 THEN rs[1] ELSE Err

\* A child element with serde(default).
DefaultChild(rs, dflt) ==
    IF Len(rs) = 0 THEN Ok(dflt) ELSE IF Len(rs) = 1 THEN rs[1] ELSE Err

ReqVec_reversed(rs) ==
    IF Len(rs) = 0 THEN Err ELSE Collect([i \in DOMAIN rs |-> rs[Len(rs) + 1 - i]])

ReqVec_lenient(rs) == Collect(rs)

\* A required Vec field: the child elements of that name, at least one.
ReqVec(rs) == IF Len(rs) = 0 THEN Err ELSE Collect(rs)

\* An Option<Vec> field: absent without such children.
OptVec(rs) ==
    IF Len(rs) = 0 THEN Ok(None)
    ELSE LET r == Collect(rs) IN IF r.ok THEN Ok(Some(r.v)) ELSE Err

(***************************************************************************)
(* Property lists in markup: the value of a lib element.  A plist value is *)
(* a record tagged by its type; a dictionary is a function from its keys   *)
(* to values.                                                              *)
(***************************************************************************)
PString(s) == [type |-> "string", s |-> s]
PInteger(i) == [type |-> "integer", i |-> i]
PArray(a) == [type |-> "array", a |-> a]
EmptyDict == [k \in {} |-> PString("")]

ParseInteger(t) ==
    CASE t = "2" -> Ok(2)
      [] t = "536" -> Ok(536)
      [] OTHER -> Err

RECURSIVE PlistValue(_)
PlistValue(e) ==
    CASE e.tag = "string" -> Ok(PString(e.text))
      [] e.tag = "integer" ->
            LET r == ParseInteger(e.text) IN IF r.ok THEN Ok(PInteger(r.v)) ELSE Err
      [] e.tag = "array" ->
            LET r == Collect([i \in DOMAIN e.kids |-> PlistValue(e.kids[i])])
            IN  IF r.ok THEN Ok(PArray(r.v)) ELSE Err
      [] OTHER -> Err

\* <dict> holds key elements and value elements in turn.
PlistDict(d) ==
    LET n == Len(d.kids)
        pairs == 1..(n \div 2)
        keyAt(j) == d.kids[2 * j - 1]
        valAt(j) == PlistValue(d.kids[2 * j])
    IN  IF n % 2 = 0 /\ \A j \in pairs : keyAt(j).tag = "key" /\ valAt(j).ok
        THEN Ok([k \in {keyAt(j).text : j \in pairs} |->
                    valAt(CHOOSE j \in pairs : keyAt(j).text = k
                             /\ \A j2 \in pairs : keyAt(j2).text = k => j2 <= j).v])
        ELSE Err

\* serde_plist::deserialize_dict on a lib element
deserialize_dict(e) == ReqChild([i \in DOMAIN Kids(e, "dict") |-> PlistDict(Kids(e, "dict")[i])])

(***************************************************************************)
(* The derived Deserialize of each struct.                                 *)
(***************************************************************************)
DimensionDe(e) ==
    LET name == ReqAttr(e, "name", "String")
        uservalue == OptAttr(e, "uservalue", "f32")
        xvalue == OptAttr(e, "xvalue", "f32")
        yvalue == OptAttr(e, "yvalue", "f32")
    IN  IF name.ok /\ uservalue.ok /\ xvalue.ok /\ yvalue.ok
        THEN Ok([name |-> name.v, uservalue |-> uservalue.v,
                 xvalue |-> xvalue.v, yvalue |-> yvalue.v])
        ELSE Err

AxisMappingDe(e) ==
    LET input == ReqAttr(e, "input", "f32")
        output == ReqAttr(e, "output", "f32")
    IN  IF input.ok /\ output.ok
        THEN Ok([input |-> input.v, output |-> output.v])
        ELSE Err

\* serde_impls: each Helper has one required Vec field named after the child
deserialize_location(e) ==
    ReqVec([i \in DOMAIN Kids(e, "dimension") |-> DimensionDe(Kids(e, "dimension")[i])])

AxisDe(e) ==
    LET name == ReqAttr(e, "name", "String")
        tag == ReqAttr(e, "tag", "String")
        default == ReqAttr(e, "default", "f32")
        hidden == DefaultAttr(e, "hidden", "bool", FALSE)
        minimum == OptAttr(e, "minimum", "f32")
        maximum == OptAttr(e, "maximum", "f32")
        values == OptAttr(e, "values", "Vec<f32>")
        map == OptVec([i \in DOMAIN Kids(e, "map") |-> AxisMappingDe(Kids(e, "map")[i])])
    IN  IF name.ok /\ tag.ok /\ default.ok /\ hidden.ok /\ minimum.ok
           /\ maximum.ok /\ values.ok /\ map.ok
        THEN Ok([name |-> name.v, tag |-> tag.v, default |-> default.v,
                 hidden |-> hidden.v, minimum |-> minimum.v, maximum |-> maximum.v,
                 values |-> values.v, map |-> map.v])
        ELSE Err

SourceDe(e) ==
    LET familyname == OptAttr(e, "familyname", "String")
        stylename == OptAttr(e, "stylename", "String")
        name == OptAttr(e, "name", "String")
        filename == ReqAttr(e, "filename", "String")
        layer == OptAttr(e, "layer", "String")
        location ==
            ReqChild([i \in DOMAIN Kids(e, "location") |-> deserialize_location(Kids(e, "location")[i])])
    IN  IF familyname.ok /\ stylename.ok /\ name.ok /\ filename.ok /\ layer.ok
           /\ location.ok
        THEN Ok([familyname |-> familyname.v, stylename |-> stylename.v,
                 name |-> name.v, filename |-> filename.v, layer |-> layer.v,
                 location |-> location.v])
        ELSE Err

InstanceDe(e) ==
    LET familyname == OptAttr(e, "familyname", "String")
        stylename == OptAttr(e, "stylename", "String")
        name == OptAttr(e, "name", "String")
        filename == OptAttr(e, "filename", "String")
        postscriptfontname == OptAttr(e, "postscriptfontname", "String")
        stylemapfamilyname == OptAttr(e, "stylemapfamilyname", "String")
        stylemapstylename == OptAttr(e, "stylemapstylename", "String")
        location ==
            ReqChild([i \in DOMAIN Kids(e, "location") |-> deserialize_location(Kids(e, "location")[i])])
        libv ==
            DefaultChild([i \in DOMAIN Kids(e, "lib") |-> deserialize_dict(Kids(e, "lib")[i])], EmptyDict)
    IN  IF familyname.ok /\ stylename.ok /\ name.ok /\ filename.ok
           /\ postscriptfontname.ok /\ stylemapfamilyname.ok
           /\ stylemapstylename.ok /\ location.ok /\ libv.ok
        THEN Ok([familyname |-> familyname.v, stylename |-> stylename.v,
                 name |-> name.v, filename |-> filename.v,
                 postscriptfontname |-> postscriptfontname.v,
                 stylemapfamilyname |-> stylemapfamilyname.v,
                 stylemapstylename |-> stylemapstylename.v,
                 location |-> location.v, lib |-> libv.v])
        ELSE Err

deserialize_instances(e) ==
    ReqVec([i \in DOMAIN Kids(e, "instance") |-> InstanceDe(Kids(e, "instance")[i])])
deserialize_axes(e) ==
    ReqVec([i \in DOMAIN Kids(e, "axis") |-> AxisDe(Kids(e, "axis")[i])])
deserialize_sources(e) ==
    ReqVec([i \in DOMAIN Kids(e, "source") |-> SourceDe(Kids(e, "source")[i])])

DesignSpaceDocumentDe(e) ==
    LET format == ReqAttr(e, "format", "f32")
        axes == ReqChild([i \in DOMAIN Kids(e, "axes") |-> deserialize_axes(Kids(e, "axes")[i])])
        sources ==
            ReqChild([i \in DOMAIN Kids(e, "sources") |-> deserialize_sources(Kids(e, "sources")[i])])
        instances ==
            DefaultChild([i \in DOMAIN Kids(e, "instances") |-> deserialize_instances(Kids(e, "instances")[i])], <<>>)
        libv ==
            DefaultChild([i \in DOMAIN Kids(e, "lib") |-> deserialize_dict(Kids(e, "lib")[i])], EmptyDict)
    IN  IF format.ok /\ axes.ok /\ sources.ok /\ instances.ok /\ libv.ok
        THEN Ok([format |-> format.v, axes |-> axes.v, sources |-> sources.v,
                 instances |-> instances.v, lib |-> libv.v])
        ELSE Err

(***************************************************************************)
(* The derived Serialize of each struct, as the markup serializer writes   *)
(* it: an element named after the field that holds the value (the root     *)
(* after the struct), a "@x" field as the attribute x, an absent Option    *)
(* attribute as an attribute with empty text, an absent Option child as an *)
(* empty element, and a Vec field as one element named after the field per *)
(* item.  No field has a serialize_with.                                   *)
(***************************************************************************)
OptStringSe(o) == IF o.some THEN o.v ELSE ""
OptF32Se(o) == IF o.some THEN FormatF32(o.v) ELSE ""
OptF32ListSe(o) == IF o.some THEN FormatF32List(o.v) ELSE ""

DimensionSe(key, d) ==
    Elem(key, [name |-> d.name, uservalue |-> OptF32Se(d.uservalue),
               xvalue |-> OptF32Se(d.xvalue), yvalue |-> OptF32Se(d.yvalue)], <<>>)

AxisMappingSe(key, m) ==
    Elem(key, [input |-> FormatF32(m.input), output |-> FormatF32(m.output)], <<>>)

AxisSe(key, a) ==
    Elem(key, [name |-> a.name, tag |-> a.tag, default |-> FormatF32(a.default),
               hidden |-> FormatBool(a.hidden), minimum |-> OptF32Se(a.minimum),
               maximum |-> OptF32Se(a.maximum), values |-> OptF32ListSe(a.values)],
         IF a.map.some THEN [i \in DOMAIN a.map.v |-> AxisMappingSe("map", a.map.v[i])]
         ELSE <<Elem("map", NoAttrs, <<>>)>>)

SourceSe(key, s) ==
    Elem(key, [familyname |-> OptStringSe(s.familyname),
               stylename |-> OptStringSe(s.stylename), name |-> OptStringSe(s.name),
               filename |-> s.filename, layer |-> OptStringSe(s.layer)],
         [i \in DOMAIN s.location |-> DimensionSe("location", s.location[i])])

FormatInteger(i) ==
    CASE i = 2 -> "2"
      [] i = 536 -> "536"

\* A Dictionary serializes as a map: one element named after each key.
RECURSIVE ValueSe(_, _)
ValueSe(key, v) ==
    CASE v.type = "string" -> <<TextElem(key, v.s)>>
      [] v.type = "integer" -> <<TextElem(key, FormatInteger(v.i))>>
      [] v.type = "array" -> Concat([i \in DOMAIN v.a |-> ValueSe(key, v.a[i])])

RECURSIVE KeySeq(_)
KeySeq(ks) == IF ks = {} THEN <<>>
              ELSE LET k == CHOOSE x \in ks : TRUE IN <<k>> \o KeySeq(ks \ {k})

DictionarySe(key, d) ==
    LET ks == KeySeq(DOMAIN d)
    IN  Elem(key, NoAttrs, Concat([i \in DOMAIN ks |-> ValueSe(ks[i], d[ks[i]])]))

InstanceSe(key, x) ==
    Elem(key, [familyname |-> OptStringSe(x.familyname),
               stylename |-> OptStringSe(x.stylename), name |-> OptStringSe(x.name),
               filename |-> OptStringSe(x.filename),
               postscriptfontname |-> OptStringSe(x.postscriptfontname),
               stylemapfamilyname |-> OptStringSe(x.stylemapfamilyname),
               stylemapstylename |-> OptStringSe(x.stylemapstylename)],
         [i \in DOMAIN x.location |-> DimensionSe("location", x.location[i])] \o <<DictionarySe("lib", x.lib)>>)

DesignSpaceDocumentSe(d) ==
    Elem("designspace", [format |-> FormatF32(d.format)],
         [i \in DOMAIN d.axes |-> AxisSe("axes", d.axes[i])] \o [i \in DOMAIN d.sources |-> SourceSe("sources", d.sources[i])]
         \o [i \in DOMAIN d.instances |-> InstanceSe("instances", d.instances[i])]
         \o <<DictionarySe("lib", d.lib)>>)

(***************************************************************************)
(* Files, load and save.                                                   *)
(***************************************************************************)
XmlDecl == "<?xml version='1.0' encoding='UTF-8'?>"
NoFile == [kind |-> "none"]
Garbage == [kind |-> "bytes"]
Xml(root) == [kind |-> "xml", decl |-> XmlDecl, root |-> root, newline |-> TRUE]

Paths == {"in.designspace", "out.designspace"}

load_one_error(files, path) ==
    IF files[path].kind = "none" THEN [kind |-> "Io"]
    ELSE IF files[path].kind = "bytes" THEN [kind |-> "Io"]
    ELSE LET r == DesignSpaceDocumentDe(files[path].root)
         IN  IF r.ok THEN [kind |-> "Ok", doc |-> r.v] ELSE [kind |-> "Io"]

\* DesignSpaceDocument::load
load(files, path) ==
    IF files[path].kind = "none" THEN [kind |-> "Io"]
    ELSE IF files[path].kind = "bytes" THEN [kind |-> "DeError"]
    ELSE LET r == DesignSpaceDocumentDe(files[path].root)
         IN  IF r.ok THEN [kind |-> "Ok", doc |-> r.v] ELSE [kind |-> "DeError"]

\* DesignSpaceDocument::save: the buffer written to the path
save(d) == Xml(DesignSpaceDocumentSe(d))

(***************************************************************************)
(* The documents given to load.  A document is built from a few item       *)
(* elements per wrapper (every wrapper absent, empty, or holding up to the *)
(* bound of items), or is the reference document with one element          *)
(* replaced by an element that has any subset of its attributes written.   *)
(***************************************************************************)
Absent == "<absent>"
Present(f) == [n \in {m \in DOMAIN f : f[m] # Absent} |-> f[n]]
SeqsUpTo(S, n) == UNION {[1..k -> S] : k \in 0..n}
Wrappers(tag, S, n) == {<<>>} \cup {<<Elem(tag, NoAttrs, ks)>> : ks \in SeqsUpTo(S, n)}

Dim400 == Elem("dimension", [name |-> "Weight", xvalue |-> "400"], <<>>)
Dim700 == Elem("dimension", [name |-> "Weight", xvalue |-> "700"], <<>>)
Loc(dims) == Elem("location", NoAttrs, dims)
Map1 == Elem("map", [input |-> "400", output |-> "100"], <<>>)
Map2 == Elem("map", [input |-> "700", output |-> "400.0"], <<>>)

LibString ==
    Elem("lib", NoAttrs, <<Elem("dict", NoAttrs,
        <<TextElem("key", "hasLoadedLibCorrectly"), TextElem("string", "Absolutely!")>>)>>)
LibNested ==
    Elem("lib", NoAttrs, <<Elem("dict", NoAttrs,
        <<TextElem("key", "customParameters"),
          Elem("array", NoAttrs,
            <<Elem("array", NoAttrs, <<TextElem("string", "xHeight"), TextElem("string", "536")>>),
              Elem("array", NoAttrs, <<TextElem("string", "codes"),
                    Elem("array", NoAttrs, <<TextElem("integer", "2")>>)>>)>>)>>)>>)
Libs == {<<>>, <<LibString>>, <<LibNested>>}

Axis1 == Elem("axis", [name |-> "Weight", tag |-> "wght", default |-> "400",
                       minimum |-> "400", maximum |-> "700"], <<>>)
Axis2 == Elem("axis", [name |-> "Width", tag |-> "wdth", default |-> "100",
                       hidden |-> "true", values |-> "400 700"], <<Map1>>)
Source1 == Elem("source", [filename |-> "TestFamily-Regular.ufo"], <<Loc(<<Dim400>>)>>)
Source2 == Elem("source", [filename |-> "TestFamily-Bold.ufo", name |-> "Test Family Bold"],
                <<Loc(<<Dim700>>)>>)
Instance1 == Elem("instance", [name |-> "Test Family Regular"], <<Loc(<<Dim400>>), LibNested>>)
Instance2 == Elem("instance", [filename |-> "instances/Bold.ufo"], <<Loc(<<Dim700>>)>>)

Root(format, kids) == Elem("designspace", Present([format |-> format]), kids)

ListDocs ==
    {Root(f, a \o s \o i \o l) :
        f \in {"4.1", Absent},
        a \in Wrappers("axes", {Axis1, Axis2}, MaxAxes),
        s \in Wrappers("sources", {Source1, Source2}, MaxSources),
        i \in Wrappers("instances", {Instance1, Instance2}, MaxInstances),
        l \in {<<>>, <<LibString>>}}

AxisElems ==
    {Elem("axis", Present([name |-> n, tag |-> t, default |-> d, hidden |-> h,
                           minimum |-> mn, maximum |-> mx, values |-> vs]), ms) :
        n \in {Absent, "Weight"}, t \in {Absent, "wght"}, d \in {Absent, "400", "abc"},
        h \in {Absent, "true", "yes"}, mn \in {Absent, "0", "400"},
        mx \in {Absent, "700"}, vs \in {Absent, "400.0 700"},
        ms \in {<<>>, <<Map1>>, <<Map1, Map2>>, <<Elem("map", NoAttrs, <<Map1, Map2>>)>>,
                <<Elem("map", [input |-> "400"], <<>>)>>}}

DimElems ==
    {Elem("dimension", Present([name |-> n, uservalue |-> u, xvalue |-> x, yvalue |-> y]), <<>>) :
        n \in {Absent, "Weight"}, u \in {Absent, "0", "400"},
        x \in {Absent, "0.0", "abc"}, y \in {Absent, "700"}}

Locations == Wrappers("location", {Dim400, Dim700}, MaxDims)

SourceElems ==
    {Elem("source", Present([familyname |-> fam, stylename |-> sty, name |-> n,
                             filename |-> fn, layer |-> ly]), loc) :
        fam \in {Absent, "Test Family"}, sty \in {Absent, "Bold"},
        n \in {Absent, "", "Test Family Bold"}, fn \in {Absent, "TestFamily-Bold.ufo"},
        ly \in {Absent, "public.background"},
        loc \in Locations \cup {<<Loc(<<d>>)>> : d \in DimElems}}

InstanceElems ==
    {Elem("instance", Present([familyname |-> fam, stylename |-> sty, name |-> n,
                               filename |-> fn, postscriptfontname |-> ps,
                               stylemapfamilyname |-> smf, stylemapstylename |-> sms]),
          loc \o l) :
        fam \in {Absent, "Test Family"}, sty \in {Absent, "Bold"},
        n \in {Absent, ""}, fn \in {Absent, "instances/Bold.ufo"},
        ps \in {Absent, "TestFamily-Bold"}, smf \in {Absent, "Test Family"},
        sms \in {Absent, "bold"},
        loc \in {<<>>, <<Loc(<<>>)>>, <<Loc(<<Dim700>>)>>}, l \in Libs}

RefAxes == <<Elem("axes", NoAttrs, <<Axis1>>)>>
RefSources == <<Elem("sources", NoAttrs, <<Source1>>)>>
RefInstances == <<Elem("instances", NoAttrs, <<Instance1>>)>>

ItemDocs ==
    {Root("4.1", <<Elem("axes", NoAttrs, <<a>>)>> \o RefSources \o RefInstances) :
        a \in AxisElems}
    \cup {Root("4.1", RefAxes \o <<Elem("sources", NoAttrs, <<s>>)>> \o l) :
            s \in SourceElems, l \in {<<>>, <<LibString>>}}
    \cup {Root("4.1", RefAxes \o RefSources \o <<Elem("instances", NoAttrs, <<x>>)>> \o l) :
            x \in InstanceElems, l \in {<<>>, <<LibString>>}}

InputFiles == {NoFile, Garbage} \cup {Xml(r) : r \in ListDocs \cup ItemDocs}

(***************************************************************************)
(* DataRequest.                                                            *)
(***************************************************************************)
Flags == {"layers", "lib", "groups", "kerning", "features", "data", "images"}

from_bool_images(b) ==
    [layers |-> b, lib |-> b, groups |-> b, kerning |-> b, features |-> b,
     data |-> b, images |-> TRUE]
from_bool(b) ==
    [layers |-> b, lib |-> b, groups |-> b, kerning |-> b, features |-> b,
     data |-> b, images |-> b]
all == from_bool(TRUE)
none == from_bool(FALSE)
Default == from_bool(TRUE)

layers(self, b) == [self EXCEPT !.layers = b]

lib(self, b) == [self EXCEPT !.lib = b]
groups(self, b) == [self EXCEPT !.groups = b]
kerning_groups(self, b) == [self EXCEPT !.kerning = b, !.groups = b]
kerning(self, b) == [self EXCEPT !.kerning = b]
features(self, b) == [self EXCEPT !.features = b]
data(self, b) == [self EXCEPT !.data = b]
images(self, b) == [self EXCEPT !.images = b]

Construct(c) == CASE c = "all" -> all [] c = "none" -> none [] c = "default" -> Default

(***************************************************************************)
(* State.                                                                  *)
(*   fs       the file at each path                                        *)
(*   origin   the document whose save wrote the file at a path, if any     *)
(*   ds       the document the caller holds (the last one load returned)   *)
(*   loadRes  the last call of load: its path, the file read, the document *)
(*            whose save wrote that file, and what load returned           *)
(*   saveRes  the last call of save                                        *)
(*   dr       the DataRequest being built; ctor, its constructor; lastSet, *)
(*            the argument of the last call of each setter; prevDr and     *)
(*            lastCall, the value before the last call and its setter      *)
(***************************************************************************)
Nothing == [kind |-> "nothing"]

InitDS ==
    /\ \E f \in InputFiles :
          fs = [p \in Paths |-> IF p = "in.designspace" THEN f ELSE NoFile]
    /\ origin = [p \in Paths |-> Nothing]
    /\ ds = Nothing
    /\ loadRes = Nothing
    /\ saveRes = Nothing

InitDR ==
    /\ ctor \in {"all", "none", "default"}
    /\ dr = Construct(ctor)
    /\ lastSet = [f \in Flags |-> None]
    /\ prevDr = dr
    /\ lastCall = "new"

Load(p) ==
    /\ loadRes' = [kind |-> "load", path |-> p, file |-> fs[p], origin |-> origin[p],
                   res |-> load(fs, p)]
    /\ ds' = IF loadRes'.res.kind = "Ok" THEN loadRes'.res.doc ELSE ds
    /\ UNCHANGED <<fs, origin, saveRes>>
    /\ UNCHANGED drVars

Save(p) ==
    /\ ds # Nothing
    /\ fs' = [fs EXCEPT ![p] = save(ds)]
    /\ origin' = [origin EXCEPT ![p] = ds]
    /\ saveRes' = [kind |-> "Ok", path |-> p, doc |-> ds]
    /\ UNCHANGED <<ds, loadRes>>
    /\ UNCHANGED drVars

Set(flag, b, new) ==
    /\ dr' = new
    /\ lastSet' = [lastSet EXCEPT ![flag] = Some(b)]
    /\ prevDr' = dr
    /\ lastCall' = flag
    /\ UNCHANGED ctor
    /\ UNCHANGED dsVars

Layers == \E b \in BOOLEAN : Set("layers", b, layers(dr, b))
Lib == \E b \in BOOLEAN : Set("lib", b, lib(dr, b))
Groups == \E b \in BOOLEAN : Set("groups", b, groups(dr, b))
Kerning == \E b \in BOOLEAN : Set("kerning", b, kerning(dr, b))
Features == \E b \in BOOLEAN : Set("features", b, features(dr, b))
Data == \E b \in BOOLEAN : Set("data", b, data(dr, b))
Images == \E b \in BOOLEAN : Set("images", b, images(dr, b))

Init == InitDS /\ ctor = "default" /\ dr = Default /\ lastSet = [f \in Flags |-> None]
        /\ prevDr = dr /\ lastCall = "new"
LoadAny == \E p \in Paths : Load(p)
SaveAny == \E p \in Paths : Save(p)
Next == LoadAny \/ SaveAny
Spec == Init /\ [][Next]_vars

InitBuilder ==
    /\ InitDR
    /\ fs = [p \in Paths |-> NoFile]
    /\ origin = [p \in Paths |-> Nothing]
    /\ ds = Nothing /\ loadRes = Nothing /\ saveRes = Nothing
NextBuilder == Layers \/ Lib \/ Groups \/ Kerning \/ Features \/ Data \/ Images
SpecBuilder == InitBuilder /\ [][NextBuilder]_vars

(***************************************************************************)
(* DataRequest properties, checked under SpecBuilder.                      *)
(***************************************************************************)
AllFlags(d, b) == DOMAIN d = Flags /\ \A f \in Flags : d[f] = b

\* C8: all() has the seven flags true, none() has the seven flags false, and
\* default() equals all(); so a freshly constructed value has every flag equal
\* to the truth value of its constructor.
C8_Constructors ==
    /\ AllFlags(all, TRUE)
    /\ AllFlags(none, FALSE)
    /\ Default = all
    /\ lastCall = "new" => AllFlags(dr, ctor # "none")

C8_Witness == lastCall = "new" /\ ctor = "none" /\ AllFlags(dr, FALSE)

Build(d, t) ==
    images(data(features(kerning(groups(lib(layers(d, t.layers), t.lib), t.groups),
        t.kerning), t.features), t.data), t.images)

\* C9: after any sequence of setter calls on a constructed value, each flag is
\* the argument of the last call of its setter, or the constructor's value when
\* its setter was never called; the last call left the other six flags as they
\* were; every call returns a DataRequest; and the seven setters applied to a
\* constructed value reach each of the 128 combinations of flags.
C9_Builder ==
    /\ DOMAIN dr = Flags
    /\ \A f \in Flags :
          dr[f] = IF lastSet[f].some THEN lastSet[f].v ELSE (ctor # "none")
    /\ lastCall # "new" => \A f \in Flags \ {lastCall} : dr[f] = prevDr[f]
    /\ lastCall = "new" => \A t \in [Flags -> BOOLEAN] : Build(dr, t) = t

C9_Witness ==
    /\ ctor = "all" /\ lastCall = "lib"
    /\ lastSet["layers"] = Some(FALSE) /\ lastSet["lib"] = Some(TRUE)
    /\ lastSet["images"] = None
    /\ ~dr.layers /\ dr.lib /\ dr.images

(***************************************************************************)
(* Designspace properties, checked under Spec.  They speak of the last     *)
(* call of load: the file it read and what it returned.  What a valid      *)
(* document is, is stated here on the markup alone.                        *)
(***************************************************************************)
Loaded == loadRes.kind = "load"
LoadedXml == Loaded /\ loadRes.file.kind = "xml"
LoadedOk == LoadedXml /\ loadRes.res.kind = "Ok"
InRoot == loadRes.file.root
OutDoc == loadRes.res.doc

IsNumber(t) == t \in {"0", "0.0", "4.1", "100", "400", "400.0", "700"}
IsBool(t) == t \in {"true", "false", "1", "0"}
IsNumberList(t) == t \in {"400", "400 700", "400.0 700"}
OptNumber(e, n) == HasAttr(e, n) => IsNumber(e.attrs[n])
One(e, tag) == Len(Kids(e, tag)) = 1
The(e, tag) == Kids(e, tag)[1]

ValidDimension(e) ==
    /\ e.tag = "dimension" /\ HasAttr(e, "name")
    /\ OptNumber(e, "uservalue") /\ OptNumber(e, "xvalue") /\ OptNumber(e, "yvalue")
ValidMapItem(e) ==
    /\ e.tag = "map"
    /\ HasAttr(e, "input") /\ IsNumber(e.attrs["input"])
    /\ HasAttr(e, "output") /\ IsNumber(e.attrs["output"])
ValidAxisAttrs(e) ==
    /\ e.tag = "axis" /\ HasAttr(e, "name") /\ HasAttr(e, "tag")
    /\ HasAttr(e, "default") /\ IsNumber(e.attrs["default"])
    /\ HasAttr(e, "hidden") => IsBool(e.attrs["hidden"])
    /\ OptNumber(e, "minimum") /\ OptNumber(e, "maximum")
    /\ HasAttr(e, "values") => IsNumberList(e.attrs["values"])

\* min is the least number of children a wrapper must hold
ValidLocation(e, min) ==
    Len(e.kids) >= min /\ \A i \in DOMAIN e.kids : ValidDimension(e.kids[i])
ValidAxis(e) == ValidAxisAttrs(e) /\ \A i \in DOMAIN e.kids : ValidMapItem(e.kids[i])
ValidSource(e, min) ==
    /\ e.tag = "source" /\ HasAttr(e, "filename")
    /\ One(e, "location") /\ ValidLocation(The(e, "location"), min)
ValidInstance(e, min) ==
    /\ e.tag = "instance"
    /\ One(e, "location") /\ ValidLocation(The(e, "location"), min)
    /\ Len(Kids(e, "lib")) <= 1

ValidFormat(r) == HasAttr(r, "format") /\ IsNumber(r.attrs["format"]) /\ Len(Kids(r, "lib")) <= 1
ValidAxes(r, min) ==
    /\ One(r, "axes") /\ Len(The(r, "axes").kids) >= min
    /\ \A i \in DOMAIN The(r, "axes").kids : ValidAxis(The(r, "axes").kids[i])
ValidSources(r, min) ==
    /\ One(r, "sources") /\ Len(The(r, "sources").kids) >= min
    /\ \A i \in DOMAIN The(r, "sources").kids : ValidSource(The(r, "sources").kids[i], min)
ValidInstances(r, min) ==
    /\ One(r, "instances") /\ Len(The(r, "instances").kids) >= min
    /\ \A i \in DOMAIN The(r, "instances").kids :
          ValidInstance(The(r, "instances").kids[i], min)
NoWrapper(r, tag) == Kids(r, tag) = <<>>

ValidDoc(r, min) ==
    /\ ValidFormat(r) /\ ValidAxes(r, min) /\ ValidSources(r, min)
    /\ NoWrapper(r, "instances") \/ ValidInstances(r, min)

PopulatedDimension(d) == DOMAIN d = {"name", "uservalue", "xvalue", "yvalue"}
PopulatedAxis(a) ==
    DOMAIN a = {"name", "tag", "default", "hidden", "minimum", "maximum", "values", "map"}
PopulatedSource(x) ==
    /\ DOMAIN x = {"familyname", "stylename", "name", "filename", "layer", "location"}
    /\ \A j \in DOMAIN x.location : PopulatedDimension(x.location[j])
PopulatedInstance(x) ==
    /\ DOMAIN x = {"familyname", "stylename", "name", "filename", "postscriptfontname",
                   "stylemapfamilyname", "stylemapstylename", "location", "lib"}
    /\ \A j \in DOMAIN x.location : PopulatedDimension(x.location[j])
Populated(d) ==
    /\ DOMAIN d = {"format", "axes", "sources", "instances", "lib"}
    /\ \A i \in DOMAIN d.axes : PopulatedAxis(d.axes[i])
    /\ \A i \in DOMAIN d.sources : PopulatedSource(d.sources[i])
    /\ \A i \in DOMAIN d.instances : PopulatedInstance(d.instances[i])

\* C5: load returns a document, an Io error or a DeError; the Io error exactly
\* when the file could not be opened; a DeError when the file opened and its
\* content is not a document or lacks a required attribute or element; and a
\* document it returns has every field of every struct.
C5_Outcomes ==
    Loaded =>
        /\ loadRes.res.kind \in {"Ok", "Io", "DeError"}
        /\ loadRes.res.kind = "Io" <=> loadRes.file.kind = "none"
        /\ loadRes.file.kind = "bytes" => loadRes.res.kind = "DeError"
        /\ loadRes.file.kind = "xml" =>
              /\ loadRes.res.kind = "Ok" <=> ValidDoc(InRoot, 1)
              /\ loadRes.res.kind = "Ok" => Populated(OutDoc)

C5_Witness ==
    /\ LoadedXml /\ loadRes.res.kind = "DeError"
    /\ One(InRoot, "axes") /\ Len(The(InRoot, "axes").kids) = 1
    /\ ~HasAttr(The(InRoot, "axes").kids[1], "name")
    /\ ValidSources(InRoot, 1) /\ ValidInstances(InRoot, 1)

\* C3: a document without an instances wrapper that is valid otherwise loads,
\* with no instances; a document without its axes wrapper, or without its
\* sources wrapper, does not load.
C3_NoInstances ==
    LoadedXml =>
        /\ (ValidDoc(InRoot, 1) /\ NoWrapper(InRoot, "instances")) =>
              (loadRes.res.kind = "Ok" /\ OutDoc.instances = <<>>)
        /\ (NoWrapper(InRoot, "axes") \/ NoWrapper(InRoot, "sources")) =>
              loadRes.res.kind = "DeError"

C3_Witness ==
    /\ LoadedOk /\ NoWrapper(InRoot, "instances") /\ OutDoc.instances = <<>>
    /\ Len(OutDoc.sources) = 2

EmptyLocation(e) == One(e, "location") /\ The(e, "location").kids = <<>>
EmptyWrapper(r, tag) == One(r, tag) /\ The(r, tag).kids = <<>>
EmptyLocationIn(r, tag) ==
    One(r, tag) /\ \E i \in DOMAIN The(r, tag).kids : EmptyLocation(The(r, tag).kids[i])
HasEmptyWrapper(r) ==
    \/ EmptyWrapper(r, "axes") \/ EmptyWrapper(r, "sources") \/ EmptyWrapper(r, "instances")
    \/ EmptyLocationIn(r, "sources") \/ EmptyLocationIn(r, "instances")

\* C10 as claimed: a document in which a wrapper is present without children,
\* valid otherwise, loads, and the field of that wrapper is the empty sequence.
C10_EmptyWrapperLoads ==
    (LoadedXml /\ ValidDoc(InRoot, 0) /\ HasEmptyWrapper(InRoot)) =>
        /\ loadRes.res.kind = "Ok"
        /\ EmptyWrapper(InRoot, "axes") => OutDoc.axes = <<>>
        /\ EmptyWrapper(InRoot, "sources") => OutDoc.sources = <<>>
        /\ EmptyWrapper(InRoot, "instances") => OutDoc.instances = <<>>

\* C10 amended: a document in which an axes, sources, instances or location
\* wrapper is present without children does not load: load returns a DeError,
\* where it returns no instances for a document without an instances wrapper.
C10_EmptyWrapperFails ==
    LoadedXml =>
        /\ HasEmptyWrapper(InRoot) => loadRes.res.kind = "DeError"
        /\ (ValidDoc(InRoot, 1) /\ NoWrapper(InRoot, "instances")) =>
              (loadRes.res.kind = "Ok" /\ OutDoc.instances = <<>>)

C10_Witness ==
    /\ LoadedXml /\ ValidDoc(InRoot, 0) /\ EmptyWrapper(InRoot, "instances")
    /\ ~EmptyWrapper(InRoot, "axes") /\ ~EmptyWrapper(InRoot, "sources")
    /\ loadRes.res.kind = "DeError"

(***************************************************************************)
(* The items of a loaded document beside the elements they were read from. *)
(***************************************************************************)
ItemsOf(r, tag) == IF One(r, tag) THEN The(r, tag).kids ELSE <<>>
AttrIs(e, n, o, ty) ==
    IF HasAttr(e, n) THEN o = Some(Parse(ty, e.attrs[n]).v) ELSE o = None
StringIs(e, n, o) == IF HasAttr(e, n) THEN o = Some(e.attrs[n]) ELSE o = None

DimensionOptions(e, d) ==
    /\ AttrIs(e, "uservalue", d.uservalue, "f32")
    /\ AttrIs(e, "xvalue", d.xvalue, "f32")
    /\ AttrIs(e, "yvalue", d.yvalue, "f32")
    /\ (HasAttr(e, "uservalue") /\ e.attrs["uservalue"] = "0") =>
          (d.uservalue = Some(0) /\ d.uservalue # None)
LocationOptions(e, loc) ==
    \A j \in DOMAIN loc : DimensionOptions(The(e, "location").kids[j], loc[j])
AxisOptions(e, a) ==
    /\ AttrIs(e, "minimum", a.minimum, "f32")
    /\ AttrIs(e, "maximum", a.maximum, "f32")
    /\ AttrIs(e, "values", a.values, "Vec<f32>")
    /\ a.map.some <=> Kids(e, "map") # <<>>
    /\ (HasAttr(e, "minimum") /\ e.attrs["minimum"] = "0") =>
          (a.minimum = Some(0) /\ a.minimum # None)
    /\ ~HasAttr(e, "hidden") => a.hidden = FALSE
SourceOptions(e, x) ==
    /\ StringIs(e, "familyname", x.familyname)
    /\ StringIs(e, "stylename", x.stylename)
    /\ StringIs(e, "name", x.name)
    /\ StringIs(e, "layer", x.layer)
    /\ LocationOptions(e, x.location)
InstanceOptions(e, x) ==
    /\ StringIs(e, "familyname", x.familyname)
    /\ StringIs(e, "stylename", x.stylename)
    /\ StringIs(e, "name", x.name)
    /\ StringIs(e, "filename", x.filename)
    /\ StringIs(e, "postscriptfontname", x.postscriptfontname)
    /\ StringIs(e, "stylemapfamilyname", x.stylemapfamilyname)
    /\ StringIs(e, "stylemapstylename", x.stylemapstylename)
    /\ LocationOptions(e, x.location)

\* C4: in a loaded document every optional field is absent exactly when its
\* attribute (for an axis map, its child elements) is not written, and holds
\* the written value otherwise, a written zero or empty text included; hidden
\* is false for an axis without the attribute.
C4_Optionals ==
    LoadedOk =>
        /\ \A i \in DOMAIN OutDoc.axes :
              AxisOptions(ItemsOf(InRoot, "axes")[i], OutDoc.axes[i])
        /\ \A i \in DOMAIN OutDoc.sources :
              SourceOptions(ItemsOf(InRoot, "sources")[i], OutDoc.sources[i])
        /\ \A i \in DOMAIN OutDoc.instances :
              InstanceOptions(ItemsOf(InRoot, "instances")[i], OutDoc.instances[i])

C4_Witness ==
    /\ LoadedOk
    /\ \E i \in DOMAIN OutDoc.axes :
          /\ OutDoc.axes[i].minimum = Some(0) /\ OutDoc.axes[i].maximum = None
          /\ ~HasAttr(ItemsOf(InRoot, "axes")[i], "maximum")
          /\ ~HasAttr(ItemsOf(InRoot, "axes")[i], "hidden") /\ ~OutDoc.axes[i].hidden

ExpectedLib(l) ==
    CASE l = LibString -> [k \in {"hasLoadedLibCorrectly"} |-> PString("Absolutely!")]
      [] l = LibNested ->
            [k \in {"customParameters"} |->
                PArray(<<PArray(<<PString("xHeight"), PString("536")>>),
                         PArray(<<PString("codes"), PArray(<<PInteger(2)>>)>>)>>)]
LibIs(e, d) == IF NoWrapper(e, "lib") THEN d = EmptyDict ELSE d = ExpectedLib(The(e, "lib"))
WithoutLib(e) == [e EXCEPT !.kids = SelectSeq(e.kids, LAMBDA k : k.tag # "lib")]

\* C6: in a loaded document the lib of the document and the lib of each
\* instance is the empty dictionary when its lib element is absent and the
\* dictionary of the element's keys and typed values when it is present; and
\* a document loads the same, but for its own lib, with its lib element taken
\* away.
C6_Lib ==
    LoadedXml =>
        /\ loadRes.res.kind = "Ok" =>
              /\ LibIs(InRoot, OutDoc.lib)
              /\ \A i \in DOMAIN OutDoc.instances :
                    LibIs(ItemsOf(InRoot, "instances")[i], OutDoc.instances[i].lib)
        /\ LET r == DesignSpaceDocumentDe(WithoutLib(InRoot))
           IN  /\ r.ok <=> loadRes.res.kind = "Ok"
               /\ r.ok => r.v = [OutDoc EXCEPT !.lib = EmptyDict]

C6_Witness ==
    /\ LoadedOk /\ OutDoc.lib = EmptyDict /\ NoWrapper(InRoot, "lib")
    /\ \E i \in DOMAIN OutDoc.instances :
          /\ "customParameters" \in DOMAIN OutDoc.instances[i].lib
          /\ OutDoc.instances[i].lib["customParameters"].a[2].a[2].a[1] = PInteger(2)

DimensionsPaired(e, loc) ==
    LET dims == The(e, "location").kids
    IN  /\ Len(loc) = Len(dims)
        /\ \A j \in DOMAIN dims :
              /\ loc[j].name = dims[j].attrs["name"]
              /\ AttrIs(dims[j], "xvalue", loc[j].xvalue, "f32")
MapItemsPaired(items, ms) ==
    /\ Len(ms) = Len(items)
    /\ \A j \in DOMAIN items :
          /\ ms[j].input = ParseF32(items[j].attrs["input"]).v
          /\ ms[j].output = ParseF32(items[j].attrs["output"]).v

\* the wrappers of axes, sources, instances and locations
WrappersUnwrapped ==
    LET as == ItemsOf(InRoot, "axes")
        ss == ItemsOf(InRoot, "sources")
        xs == ItemsOf(InRoot, "instances")
    IN  /\ Len(OutDoc.axes) = Len(as) /\ Len(OutDoc.sources) = Len(ss)
        /\ Len(OutDoc.instances) = Len(xs)
        /\ \A i \in DOMAIN as :
              OutDoc.axes[i].name = as[i].attrs["name"] /\ OutDoc.axes[i].tag = as[i].attrs["tag"]
        /\ \A i \in DOMAIN ss :
              /\ OutDoc.sources[i].filename = ss[i].attrs["filename"]
              /\ DimensionsPaired(ss[i], OutDoc.sources[i].location)
        /\ \A i \in DOMAIN xs :
              /\ StringIs(xs[i], "name", OutDoc.instances[i].name)
              /\ DimensionsPaired(xs[i], OutDoc.instances[i].location)

\* an axis that holds its map items in one map wrapper element
MapWrapped(e) ==
    /\ One(e, "map") /\ Len(e.kids) = 1
    /\ Len(e.kids[1].kids) >= 1
    /\ \A j \in DOMAIN e.kids[1].kids : ValidMapItem(e.kids[1].kids[j])
ValidDocMapWrapped(r) ==
    /\ ValidFormat(r) /\ ValidSources(r, 1)
    /\ NoWrapper(r, "instances") \/ ValidInstances(r, 1)
    /\ One(r, "axes") /\ Len(The(r, "axes").kids) >= 1
    /\ \A i \in DOMAIN The(r, "axes").kids :
          LET e == The(r, "axes").kids[i]
          IN  ValidAxisAttrs(e) /\ (MapWrapped(e) \/ ValidAxis(e))

\* C7 as claimed: each wrapper, that of the map items of an axis included,
\* holding one or more children loads as the sequence of its children, in
\* the order of the document.
C7_UnwrapAll ==
    /\ LoadedOk => WrappersUnwrapped
    /\ (LoadedXml /\ ValidDocMapWrapped(InRoot)) =>
          /\ loadRes.res.kind = "Ok"
          /\ \A i \in DOMAIN ItemsOf(InRoot, "axes") :
                LET e == ItemsOf(InRoot, "axes")[i]
                IN  MapWrapped(e) =>
                       /\ OutDoc.axes[i].map.some
                       /\ MapItemsPaired(e.kids[1].kids, OutDoc.axes[i].map.v)

\* C7 amended: a valid document loads, and each axes, sources, instances and
\* location wrapper holding n >= 1 children loads as the sequence of its n
\* children in the order of the document, each item with its own attributes
\* and its own location, one child giving a sequence of one item; the map
\* items of an axis are not wrapped: they are the map child elements of the
\* axis itself, which load as a sequence in the order of the document.
C7_Unwrap ==
    LoadedXml =>
        /\ ValidDoc(InRoot, 1) => loadRes.res.kind = "Ok"
        /\ loadRes.res.kind = "Ok" =>
              /\ WrappersUnwrapped
              /\ \A i \in DOMAIN ItemsOf(InRoot, "axes") :
                    LET e == ItemsOf(InRoot, "axes")[i]
                    IN  e.kids # <<>> =>
                           /\ OutDoc.axes[i].map.some
                           /\ MapItemsPaired(e.kids, OutDoc.axes[i].map.v)

C7_Witness ==
    /\ LoadedOk
    /\ Len(OutDoc.sources) = 2 /\ Len(OutDoc.axes) = 1
    /\ OutDoc.sources[1].filename = "TestFamily-Regular.ufo"
    /\ OutDoc.sources[1].location[1].xvalue = Some(4000)
    /\ OutDoc.sources[2].filename = "TestFamily-Bold.ufo"
    /\ OutDoc.sources[2].location[1].xvalue = Some(7000)

(***************************************************************************)
(* Save.                                                                   *)
(***************************************************************************)
\* C1: a document that load returned is saved to a path, and load of that
\* path returns a document equal to it.
C1_RoundTrip ==
    (Loaded /\ loadRes.origin # Nothing) =>
        loadRes.res = [kind |-> "Ok", doc |-> loadRes.origin]

WrapperOf(r, tag, item, n) ==
    /\ One(r, tag)
    /\ Len(The(r, tag).kids) = n
    /\ \A i \in DOMAIN The(r, tag).kids : The(r, tag).kids[i].tag = item

\* C2: the file that save writes holds each sequence of the document as one
\* wrapper element with one child element per item, and holds an instances
\* wrapper also when the document has no instances.
C2_SaveWrappers ==
    \A p \in Paths :
        origin[p] # Nothing =>
            LET r == fs[p].root
                d == origin[p]
            IN  /\ WrapperOf(r, "axes", "axis", Len(d.axes))
                /\ WrapperOf(r, "sources", "source", Len(d.sources))
                /\ WrapperOf(r, "instances", "instance", Len(d.instances))
                /\ \A i \in DOMAIN d.sources :
                      WrapperOf(The(r, "sources").kids[i], "location", "dimension",
                                Len(d.sources[i].location))
====
